---- MODULE Spec2Model ----
(***************************************************************************)
(* Model of aws-wp.go: a sequential command-line workflow that resolves a  *)
(* security group, launches one EC2 instance, tags it, polls until it is   *)
(* running and opens the browser on its public address.                    *)
(*                                                                         *)
(* The program is one thread; pc is the remote call it is about to make.   *)
(* Each action is one remote call together with all the code that runs     *)
(* between that call and the next one.  The remote system is the           *)
(* environment: every call's outcome is chosen nondeterministically.       *)
(* The program is run several times against the same remote account, so    *)
(* that statements about repeated runs can be checked.                     *)
(***************************************************************************)
EXTENDS Integers, Sequences, FiniteSets, TLC

VARIABLES
    pc,               \* position of the program: the next remote call
    runs,             \* number of process runs started so far
    exitStatus,       \* "running" | "returned" | "panic" | "fatal"
    imageId,          \* value of the -ami flag of this run
    securityGroupId,  \* createInstance's local, result of getSecurityGroup
    instanceId,       \* main's local, result of createInstance
    publicDnsName,    \* main's local, result of waitRunning
    calls,            \* trace of external calls of this run, in order
    responses,        \* DescribeInstances results received in this run
    output,           \* diagnostics printed in this run, in order
    remoteGroups,     \* remote: ids of the security groups named GroupName
    groupsAtStart     \* remoteGroups when this run started

vars == <<pc, runs, exitStatus, imageId, securityGroupId, instanceId,
          publicDnsName, calls, responses, output, remoteGroups,
          groupsAtStart>>

(* ------------------------------ bounds -------------------------------- *)
MaxRuns  == 2    \* process runs against the same account
MaxPolls == 2    \* non-terminal poll iterations per run
MaxInst  == 2    \* instances listed in one DescribeInstances response

(* ------------------------- program constants -------------------------- *)
GroupName   == "wordpress-sg"
RunningCode == 16
PendingCode == 0
PollSleep   == 3
SettleSleep == 7

(* --------------------------- input domains ---------------------------- *)
ImageIds    == {"", "ami-123"}
GroupIds    == {"sg-1", "sg-2"}
InstanceIds == {"i-abc", "i-def"}
DnsNames    == {"ec2-1-2-3-4.compute.amazonaws.com", "ec2-5-6-7-8.compute.amazonaws.com"}
StateCodes  == {0, 16, 48, 80}

(* An error value: nil, a smithy.APIError with a code, or another error.  *)
NoErr       == [kind |-> "nil",   code |-> ""]
ApiErr(c)   == [kind |-> "api",   code |-> c]
GenericErr  == [kind |-> "other", code |-> ""]

\* how an error shows in the call trace
ErrName(err) ==
    IF err.kind = "nil" THEN "ok"
    ELSE IF err.kind = "api" THEN err.code ELSE "error"

Call(o, a, r, i) == [op |-> o, arg |-> a, res |-> r, ret |-> i]

\* the deferred duration(start) of main: runs when main returns or panics
duration(out) == Append(out, "Start-up time")

(* ------------------------------- main --------------------------------- *)
AmiMissingNever(img) == FALSE

\* main: if *imageId == ""
AmiMissing(img) == img = ""

\* main up to the call of createClient
main(img) ==
    /\ pc = "main"
    /\ imageId' = img
    /\ IF AmiMissing(img)
       THEN /\ output' = duration(Append(output, "You must supply an AMI"))
            /\ pc' = "exit"
            /\ exitStatus' = "returned"
       ELSE /\ output' = output
            /\ pc' = "createClient"
            /\ exitStatus' = exitStatus
    /\ UNCHANGED <<runs, securityGroupId, instanceId, publicDnsName, calls,
                   responses, remoteGroups, groupsAtStart>>

\* createClient: config.LoadDefaultConfig, panic on error
createClient(err) ==
    /\ pc = "createClient"
    /\ calls' = Append(calls, Call("LoadDefaultConfig", "", ErrName(err), ""))
    /\ IF err.kind # "nil"
       THEN /\ output' = duration(Append(output, "Configuration error"))
            /\ pc' = "exit"
            /\ exitStatus' = "panic"
       ELSE /\ output' = output
            /\ pc' = "DescribeSecurityGroups"
            /\ exitStatus' = exitStatus
    /\ UNCHANGED <<runs, imageId, securityGroupId, instanceId, publicDnsName,
                   responses, remoteGroups, groupsAtStart>>

(* -------------------------- getSecurityGroup -------------------------- *)
\* what the remote can answer to DescribeSecurityGroups{GroupNames:[name]}
LookupResults ==
    IF remoteGroups # {}
    THEN {[err |-> NoErr, groups |-> <<g>>] : g \in remoteGroups}
         \cup {[err |-> ApiErr("UnauthorizedOperation"), groups |-> <<>>],
               [err |-> GenericErr, groups |-> <<>>]}
    ELSE {[err |-> ApiErr("InvalidGroup.NotFound"), groups |-> <<>>],
          [err |-> NoErr, groups |-> <<>>],
          [err |-> ApiErr("UnauthorizedOperation"), groups |-> <<>>],
          [err |-> GenericErr, groups |-> <<>>]}

\* errors.As(err, &ae) with ae a smithy.APIError
ErrorsAsAPIError(err) == err.kind = "api"

\* the lookup error makes getSecurityGroup give up (return "")
LookupGivesUp(err) ==
    /\ err.kind # "nil"
    /\ ErrorsAsAPIError(err)
    /\ err.code # "InvalidGroup.NotFound"

\* getSecurityGroup from its start up to the call of CreateSecurityGroup
getSecurityGroup(r) ==
    /\ pc = "DescribeSecurityGroups"
    /\ r \in LookupResults
    /\ calls' = Append(calls, Call("DescribeSecurityGroups", GroupName,
                                   ErrName(r.err),
                                   IF Len(r.groups) > 0 THEN r.groups[1] ELSE ""))
    /\ IF r.err.kind = "nil" /\ Len(r.groups) > 0
       THEN /\ securityGroupId' = r.groups[1]
            /\ output' = output
            /\ pc' = "RunInstances"
       ELSE IF LookupGivesUp(r.err)
       THEN /\ securityGroupId' = ""
            /\ output' = Append(output, "Got an error retrieving information about security griop:")
            /\ pc' = "RunInstances"
       ELSE /\ securityGroupId' = securityGroupId
            /\ output' = output
            /\ pc' = "CreateSecurityGroup"
    /\ UNCHANGED <<runs, exitStatus, imageId, instanceId, publicDnsName,
                   responses, remoteGroups, groupsAtStart>>

\* what the remote can answer to CreateSecurityGroup: names are unique, so
\* the call fails when a group of that name exists; it may fail otherwise too
CreateGroupResults ==
    {[err |-> ApiErr(IF remoteGroups # {} THEN "InvalidGroup.Duplicate"
                     ELSE "UnauthorizedOperation"), id |-> ""]}
    \cup (IF remoteGroups = {}
          THEN {[err |-> NoErr, id |-> g] : g \in GroupIds}
          ELSE {})

createSecurityGroupIgnoresError(r) ==
    /\ pc = "CreateSecurityGroup"
    /\ r \in CreateGroupResults
    /\ calls' = Append(calls, Call("CreateSecurityGroup", GroupName,
                                   ErrName(r.err), r.id))
    /\ output' = IF r.err.kind # "nil"
                 THEN Append(output, "Got an error creating an security group:")
                 ELSE output
    /\ pc' = "AuthorizeSecurityGroupIngress"
    /\ remoteGroups' = IF r.err.kind # "nil" THEN remoteGroups
                       ELSE remoteGroups \cup {r.id}
    /\ UNCHANGED <<runs, exitStatus, imageId, securityGroupId, instanceId,
                   publicDnsName, responses, groupsAtStart>>

\* getSecurityGroup: CreateSecurityGroup and its error check
createSecurityGroup(r) ==
    /\ pc = "CreateSecurityGroup"
    /\ r \in CreateGroupResults
    /\ calls' = Append(calls, Call("CreateSecurityGroup", GroupName,
                                   ErrName(r.err), r.id))
    /\ IF r.err.kind # "nil"
       THEN /\ securityGroupId' = ""
            /\ output' = Append(output, "Got an error creating an security group:")
            /\ pc' = "RunInstances"
            /\ remoteGroups' = remoteGroups
       ELSE /\ securityGroupId' = securityGroupId
            /\ output' = output
            /\ pc' = "AuthorizeSecurityGroupIngress"
            /\ remoteGroups' = remoteGroups \cup {r.id}
    /\ UNCHANGED <<runs, exitStatus, imageId, instanceId, publicDnsName,
                   responses, groupsAtStart>>

\* the group id of the CreateSecurityGroup output of this run
CreatedGroupId ==
    LET i == CHOOSE j \in DOMAIN calls : calls[j].op = "CreateSecurityGroup"
    IN  calls[i].ret

AuthorizeTargetName(created) == GroupName

\* sgIngressInput.GroupId: securityGroup.GroupId
AuthorizeTarget(created) == created

authorizeIngressRelookup(err) ==
    /\ pc = "AuthorizeSecurityGroupIngress"
    /\ calls' = Append(calls, Call("AuthorizeSecurityGroupIngress",
                                   AuthorizeTarget(CreatedGroupId),
                                   ErrName(err), ""))
    /\ securityGroupId' = CreatedGroupId
    /\ pc' = "DescribeSecurityGroups"
    /\ UNCHANGED <<runs, exitStatus, imageId, instanceId, publicDnsName,
                   responses, output, remoteGroups, groupsAtStart>>

\* getSecurityGroup: AuthorizeSecurityGroupIngress (results discarded) and
\* the final return of the created group's id
authorizeIngress(err) ==
    /\ pc = "AuthorizeSecurityGroupIngress"
    /\ calls' = Append(calls, Call("AuthorizeSecurityGroupIngress",
                                   AuthorizeTarget(CreatedGroupId),
                                   ErrName(err), ""))
    /\ securityGroupId' = CreatedGroupId
    /\ pc' = "RunInstances"
    /\ UNCHANGED <<runs, exitStatus, imageId, instanceId, publicDnsName,
                   responses, output, remoteGroups, groupsAtStart>>

(* --------------------------- createInstance --------------------------- *)
\* what the remote can answer to RunInstances (MinCount = MaxCount = 1): an
\* error, or one new instance
RunInstancesResults ==
    {[err |-> GenericErr, id |-> ""]}
    \cup {[err |-> NoErr, id |-> i] : i \in InstanceIds}

createInstanceRetry(r) ==
    /\ pc = "RunInstances"
    /\ r \in RunInstancesResults
    /\ calls' = Append(calls, Call("RunInstances", securityGroupId,
                                   ErrName(r.err), r.id))
    /\ IF r.err.kind # "nil"
       THEN /\ instanceId' = ""
            /\ output' = Append(output, "Got an error creating an instance:")
            /\ pc' = IF \E i \in DOMAIN calls : calls[i].op = "RunInstances"
                     THEN "DescribeInstances" ELSE "RunInstances"
       ELSE /\ instanceId' = r.id
            /\ output' = output
            /\ pc' = "CreateTags"
    /\ UNCHANGED <<runs, exitStatus, imageId, securityGroupId, publicDnsName,
                   responses, remoteGroups, groupsAtStart>>

createInstanceTagsAlways(r) ==
    /\ pc = "RunInstances"
    /\ r \in RunInstancesResults
    /\ calls' = Append(calls, Call("RunInstances", securityGroupId,
                                   ErrName(r.err), r.id))
    /\ instanceId' = r.id
    /\ output' = IF r.err.kind # "nil"
                 THEN Append(output, "Got an error creating an instance:")
                 ELSE output
    /\ pc' = "CreateTags"
    /\ UNCHANGED <<runs, exitStatus, imageId, securityGroupId, publicDnsName,
                   responses, remoteGroups, groupsAtStart>>

\* createInstance: RunInstances, its error check and the return to main
\* when it failed (main then calls waitRunning with the returned "")
createInstance(r) ==
    /\ pc = "RunInstances"
    /\ r \in RunInstancesResults
    /\ calls' = Append(calls, Call("RunInstances", securityGroupId,
                                   ErrName(r.err), r.id))
    /\ IF r.err.kind # "nil"
       THEN /\ instanceId' = ""
            /\ output' = Append(output, "Got an error creating an instance:")
            /\ pc' = "DescribeInstances"
       ELSE /\ instanceId' = r.id
            /\ output' = output
            /\ pc' = "CreateTags"
    /\ UNCHANGED <<runs, exitStatus, imageId, securityGroupId, publicDnsName,
                   responses, remoteGroups, groupsAtStart>>

setTagNameFatal(err) ==
    /\ pc = "CreateTags"
    /\ calls' = Append(calls, Call("CreateTags", instanceId, ErrName(err), ""))
    /\ output' = IF err.kind # "nil"
                 THEN Append(output, "Got an error tagging the instance:")
                 ELSE output
    /\ instanceId' = IF err.kind # "nil" THEN "" ELSE instanceId
    /\ pc' = "DescribeInstances"
    /\ UNCHANGED <<runs, exitStatus, imageId, securityGroupId, publicDnsName,
                   responses, remoteGroups, groupsAtStart>>

\* setTagName, then createInstance returns instanceId to main
setTagName(err) ==
    /\ pc = "CreateTags"
    /\ calls' = Append(calls, Call("CreateTags", instanceId, ErrName(err), ""))
    /\ output' = IF err.kind # "nil"
                 THEN Append(output, "Got an error tagging the instance:")
                 ELSE output
    /\ pc' = "DescribeInstances"
    /\ UNCHANGED <<runs, exitStatus, imageId, securityGroupId, instanceId,
                   publicDnsName, responses, remoteGroups, groupsAtStart>>

(* ----------------------------- waitRunning ---------------------------- *)
\* an instance of a response: its state code and its public DNS name (the
\* remote assigns a name to running instances only, and not to all of them)
Instances ==
    {i \in [code : StateCodes, dns : DnsNames \cup {""}] :
        i.code # RunningCode => i.dns = ""}

\* a DescribeInstances result: an error, or the instances of all the
\* reservations, in the order the two nested range loops visit them
DescribeResults ==
    {[err |-> GenericErr, insts |-> <<>>]}
    \cup {[err |-> NoErr, insts |-> s] :
             s \in UNION {[1..n -> Instances] : n \in 0..MaxInst}}

RunningUrlBare(dns) == dns

\* "http://" + *i.PublicDnsName
RunningUrl(dns) == "http://" \o dns

IsFailedCodeNever(code) == FALSE

\* *i.State.Code != 0, tested after the running code was excluded
IsFailedCode(code) == code # PendingCode

\* the two nested range loops over one response: ret says whether
\* waitRunning returns, val is the value returned, slept the sleeps made
\* and out the lines printed
RECURSIVE scanInstances(_)
scanInstances(insts) ==
    IF insts = <<>>
    THEN [ret |-> FALSE, val |-> "", slept |-> <<>>, out |-> <<>>]
    ELSE LET i == Head(insts) IN
         IF i.code = RunningCode
         THEN [ret |-> TRUE, val |-> RunningUrl(i.dns),
               slept |-> <<SettleSleep>>, out |-> <<>>]
         ELSE IF IsFailedCode(i.code)
         THEN [ret |-> TRUE, val |-> "", slept |-> <<>>,
               out |-> <<"Got an error creating an instance">>]
         ELSE LET rest == scanInstances(Tail(insts))
              IN  [rest EXCEPT !.out = <<"Still pending...">> \o @]

onQueryErrorRetry ==
    [ret |-> FALSE, val |-> "", slept |-> <<PollSleep>>,
     out |-> <<"Got an error retrieving information about your Amazon EC2 instances:">>]

\* waitRunning: if err != nil { print; return "" }
onQueryError ==
    [ret |-> TRUE, val |-> "", slept |-> <<>>,
     out |-> <<"Got an error retrieving information about your Amazon EC2 instances:">>]

pollStepGiveUp(res) ==
    IF res.err.kind # "nil"
    THEN onQueryError
    ELSE LET s == scanInstances(res.insts)
         IN  IF s.ret THEN s ELSE [s EXCEPT !.ret = TRUE]

pollStepEmptyFails(res) ==
    IF res.err.kind # "nil"
    THEN onQueryError
    ELSE LET s == scanInstances(res.insts)
         IN  IF s.ret THEN s
             ELSE IF res.insts = <<>>
             THEN [s EXCEPT !.ret = TRUE,
                            !.out = <<"Got an error creating an instance">>]
             ELSE [s EXCEPT !.slept = <<PollSleep>>]

\* one iteration of the for loop of waitRunning
pollStep(res) ==
    IF res.err.kind # "nil"
    THEN onQueryError
    ELSE LET s == scanInstances(res.insts)
         IN  IF s.ret THEN s ELSE [s EXCEPT !.slept = <<PollSleep>>]

\* one iteration of waitRunning and, when it returns, main's test of the
\* result.  At most MaxPolls iterations of a run may end without returning.
waitRunning(res) ==
    /\ pc = "DescribeInstances"
    /\ res \in DescribeResults
    /\ LET s == pollStep(res) IN
       /\ s.ret \/ Len(responses) < MaxPolls
       /\ responses' = Append(responses, res)
       /\ calls' = calls
                   \o <<Call("DescribeInstances", instanceId, ErrName(res.err), "")>>
                   \o [k \in 1..Len(s.slept) |->
                          Call("Sleep", ToString(s.slept[k]), "ok", "")]
       /\ IF ~s.ret
          THEN /\ output' = output \o s.out
               /\ UNCHANGED <<pc, publicDnsName, exitStatus>>
          ELSE /\ publicDnsName' = s.val
               /\ IF s.val # ""
                  THEN /\ pc' = "openBrowser"
                       /\ output' = output \o s.out
                       /\ exitStatus' = exitStatus
                  ELSE /\ pc' = "exit"
                       /\ output' = duration(output \o s.out)
                       /\ exitStatus' = "returned"
    /\ UNCHANGED <<runs, imageId, securityGroupId, instanceId, remoteGroups,
                   groupsAtStart>>

(* ----------------------------- openBrowser ---------------------------- *)
\* openBrowser: start the platform's opener; log.Fatal when that fails or
\* the platform is unsupported
openBrowser(err) ==
    /\ pc = "openBrowser"
    /\ calls' = Append(calls, Call("openBrowser", publicDnsName, ErrName(err), ""))
    /\ IF err.kind # "nil"
       THEN /\ output' = Append(output, "Got an error open browser:")
            /\ exitStatus' = "fatal"
       ELSE /\ output' = duration(output)
            /\ exitStatus' = "returned"
    /\ pc' = "exit"
    /\ UNCHANGED <<runs, imageId, securityGroupId, instanceId, publicDnsName,
                   responses, remoteGroups, groupsAtStart>>

(* ------------------------- the operator's runs ------------------------ *)
\* the process has ended and the operator starts the program again
NewRun ==
    /\ pc = "exit"
    /\ runs < MaxRuns
    /\ runs' = runs + 1
    /\ pc' = "main"
    /\ exitStatus' = "running"
    /\ imageId' = ""
    /\ securityGroupId' = ""
    /\ instanceId' = ""
    /\ publicDnsName' = ""
    /\ calls' = <<>>
    /\ responses' = <<>>
    /\ output' = <<>>
    /\ groupsAtStart' = remoteGroups
    /\ UNCHANGED remoteGroups

Init ==
    /\ pc = "main"
    /\ runs = 1
    /\ exitStatus = "running"
    /\ imageId = ""
    /\ securityGroupId = ""
    /\ instanceId = ""
    /\ publicDnsName = ""
    /\ calls = <<>>
    /\ responses = <<>>
    /\ output = <<>>
    /\ remoteGroups \in {{}} \cup {{g} : g \in GroupIds}
    /\ groupsAtStart = remoteGroups

Next ==
    \/ \E img \in ImageIds : main(img)
    \/ \E err \in {NoErr, GenericErr} : createClient(err)
    \/ \E r \in LookupResults : getSecurityGroup(r)
    \/ \E r \in CreateGroupResults : createSecurityGroup(r)
    \/ \E err \in {NoErr, GenericErr} : authorizeIngress(err)
    \/ \E r \in RunInstancesResults : createInstance(r)
    \/ \E err \in {NoErr, GenericErr} : setTagName(err)
    \/ \E res \in DescribeResults : waitRunning(res)
    \/ \E err \in {NoErr, GenericErr} : openBrowser(err)
    \/ NewRun

Spec == Init /\ [][Next]_vars

(* ======================= properties of the workflow =================== *)
CallsOf(o) == {i \in DOMAIN calls : calls[i].op = o}
N(o) == Cardinality(CallsOf(o))
Printed(msg) == \E k \in DOMAIN output : output[k] = msg

RemoteOps ==
    {"LoadDefaultConfig", "DescribeSecurityGroups", "CreateSecurityGroup",
     "AuthorizeSecurityGroupIngress", "RunInstances", "CreateTags",
     "DescribeInstances"}

\* getSecurityGroup was called and has returned
ResolverReturned ==
    /\ N("DescribeSecurityGroups") = 1
    /\ pc \notin {"CreateSecurityGroup", "AuthorizeSecurityGroupIngress"}

\* createInstance was called and has returned
LauncherReturned ==
    /\ N("RunInstances") = 1
    /\ pc # "CreateTags"

\* waitRunning was called and has returned
PollerReturned ==
    /\ N("DescribeInstances") >= 1
    /\ pc \in {"openBrowser", "exit"}

\* a response listing at least one instance, all of them pending
IsPendingResponse(r) ==
    /\ r.err.kind = "nil"
    /\ Len(r.insts) >= 1
    /\ \A k \in DOMAIN r.insts : r.insts[k].code = PendingCode

\* the first instance of the response that is not pending, if any
Decisive(r) ==
    {k \in DOMAIN r.insts :
        /\ r.insts[k].code # PendingCode
        /\ \A j \in 1..(k-1) : r.insts[j].code = PendingCode}

IsRunningResponse(r) ==
    /\ r.err.kind = "nil"
    /\ \E k \in Decisive(r) : r.insts[k].code = RunningCode

IsFailedResponse(r) ==
    /\ r.err.kind = "nil"
    /\ \E k \in Decisive(r) : r.insts[k].code \notin {PendingCode, RunningCode}

RunningAddress(r) == r.insts[CHOOSE k \in Decisive(r) : TRUE].dns

(* C1: a run whose image identifier is the empty string issues no remote  *)
(* call of any kind, does not invoke the browser launcher, and has        *)
(* printed the missing-input message when the process ends.               *)
C1_EmptyImageNoRemoteCall ==
    (pc # "main" /\ imageId = "") =>
        /\ calls = <<>>
        /\ pc = "exit"
        /\ exitStatus = "returned"
        /\ Printed("You must supply an AMI")

C1_Witness ==
    /\ pc = "exit"
    /\ imageId = ""
    /\ calls = <<>>
    /\ Printed("You must supply an AMI")

(* C2: after a lookup error other than not-found (a coded API error or a  *)
(* generic, uncoded failure), CreateSecurityGroup is never invoked and    *)
(* the resolver returns the empty identifier.                             *)
C2_OtherLookupErrorNeverCreates ==
    \A i \in CallsOf("DescribeSecurityGroups") :
        calls[i].res \notin {"ok", "InvalidGroup.NotFound"} =>
            /\ N("CreateSecurityGroup") = 0
            /\ ResolverReturned => securityGroupId = ""

(* C3: when AuthorizeSecurityGroupIngress fails after a successful        *)
(* CreateSecurityGroup, the resolver returns the empty identifier and     *)
(* the condition is reported.                                             *)
C3_AuthorizeFailureReturnsEmpty ==
    \A i \in CallsOf("AuthorizeSecurityGroupIngress") :
        (calls[i].res # "ok" /\ ResolverReturned) =>
            /\ securityGroupId = ""
            /\ output # <<>>

(* C4: after a failed RunInstances the workflow is terminal:              *)
(* createInstance returns "", and the run issues no further RunInstances, *)
(* no CreateTags, no DescribeInstances, and does not open the browser.    *)
C4_LaunchFailureIsTerminal ==
    \A i \in CallsOf("RunInstances") :
        calls[i].res # "ok" =>
            /\ instanceId = ""
            /\ N("RunInstances") = 1
            /\ N("CreateTags") = 0
            /\ N("DescribeInstances") = 0
            /\ N("openBrowser") = 0

(* C5: when the lookup reports not-found and CreateSecurityGroup          *)
(* succeeds, CreateSecurityGroup is invoked exactly once, then            *)
(* AuthorizeSecurityGroupIngress exactly once, on the group just created, *)
(* and the resolver returns the created group's identifier.               *)
C5_CreateThenAuthorizeOnce ==
    \A i \in CallsOf("DescribeSecurityGroups") :
      \A j \in CallsOf("CreateSecurityGroup") :
        (calls[i].res = "InvalidGroup.NotFound" /\ calls[j].res = "ok") =>
            /\ i < j
            /\ N("CreateSecurityGroup") = 1
            /\ calls[j].ret # ""
            /\ calls[j].ret \in remoteGroups
            /\ IF pc = "AuthorizeSecurityGroupIngress"
               THEN N("AuthorizeSecurityGroupIngress") = 0
               ELSE /\ N("AuthorizeSecurityGroupIngress") = 1
                    /\ \A k \in CallsOf("AuthorizeSecurityGroupIngress") :
                          /\ k = j + 1
                          /\ calls[k].arg = calls[j].ret
                    /\ securityGroupId = calls[j].ret

C5_Witness ==
    /\ ResolverReturned
    /\ \E i \in CallsOf("DescribeSecurityGroups") :
          calls[i].res = "InvalidGroup.NotFound"
    /\ \E j \in CallsOf("CreateSecurityGroup") :
          calls[j].res = "ok" /\ securityGroupId = calls[j].ret
    /\ N("AuthorizeSecurityGroupIngress") = 1

(* C6: whenever the named group already exists when a run starts, the     *)
(* resolver invokes neither CreateSecurityGroup nor                       *)
(* AuthorizeSecurityGroupIngress, the identifier it returns (when it is   *)
(* not the empty sentinel of a failed lookup) is the existing one, and at *)
(* most one group of that name ever exists.                               *)
C6_ResolverIdempotent ==
    /\ Cardinality(remoteGroups) <= 1
    /\ groupsAtStart # {} =>
          /\ N("CreateSecurityGroup") = 0
          /\ N("AuthorizeSecurityGroupIngress") = 0
          /\ (ResolverReturned /\ securityGroupId # "") =>
                securityGroupId \in groupsAtStart

(* C7: for n pending responses followed by a running response with        *)
(* address A, waitRunning issues exactly n+1 queries, sleeps the poll     *)
(* interval after each pending response and the settle interval after the *)
(* running one, and returns "http://" followed by A.                      *)
C7_PendingThenRunning ==
    (/\ responses # <<>>
     /\ IsRunningResponse(responses[Len(responses)])
     /\ \A k \in 1..(Len(responses) - 1) : IsPendingResponse(responses[k])) =>
        LET n == Len(responses) - 1
            q == CallsOf("DescribeInstances")
        IN  /\ Cardinality(q) = n + 1
            /\ N("Sleep") = n + 1
            /\ \A i \in q :
                  /\ i + 1 \in DOMAIN calls
                  /\ calls[i + 1].op = "Sleep"
                  /\ calls[i + 1].arg =
                        IF \E i2 \in q : i2 > i
                        THEN ToString(PollSleep) ELSE ToString(SettleSleep)
            /\ PollerReturned
            /\ publicDnsName = "http://" \o RunningAddress(responses[Len(responses)])

C7_Witness ==
    /\ Len(responses) = 3
    /\ IsPendingResponse(responses[1])
    /\ IsPendingResponse(responses[2])
    /\ IsRunningResponse(responses[3])
    /\ N("Sleep") = 3
    /\ publicDnsName = "http://ec2-1-2-3-4.compute.amazonaws.com"

(* C8: on the first response whose status code is neither pending nor     *)
(* running, waitRunning returns the empty string and no further           *)
(* DescribeInstances is issued, however many pending responses preceded.  *)
C8_FailedStatusStopsPolling ==
    \A k \in DOMAIN responses :
        IsFailedResponse(responses[k]) =>
            /\ k = Len(responses)
            /\ N("DescribeInstances") = k
            /\ PollerReturned
            /\ publicDnsName = ""
            /\ pc = "exit"
            /\ N("openBrowser") = 0

C8_Witness ==
    /\ Len(responses) = 3
    /\ IsPendingResponse(responses[1])
    /\ IsPendingResponse(responses[2])
    /\ IsFailedResponse(responses[3])
    /\ publicDnsName = ""
    /\ pc = "exit"

(* C9: when a DescribeInstances query returns an error, on the first or   *)
(* a later iteration, waitRunning returns the empty string at once and    *)
(* the query is never issued again.                                       *)
C9_QueryErrorNotRetried ==
    \A k \in DOMAIN responses :
        responses[k].err.kind # "nil" =>
            /\ k = Len(responses)
            /\ N("DescribeInstances") = k
            /\ calls[Len(calls)].op = "DescribeInstances"
            /\ PollerReturned
            /\ publicDnsName = ""
            /\ pc = "exit"

C9_Witness ==
    /\ Len(responses) = 2
    /\ IsPendingResponse(responses[1])
    /\ responses[2].err.kind # "nil"
    /\ publicDnsName = ""
    /\ pc = "exit"

(* C10: when RunInstances succeeds and CreateTags then fails,             *)
(* createInstance still returns the identifier of the created instance    *)
(* and the workflow goes on to poll the status of that instance.          *)
C10_TagFailureNotFatal ==
    \A i \in CallsOf("RunInstances") :
      \A j \in CallsOf("CreateTags") :
        (calls[i].res = "ok" /\ calls[j].res # "ok") =>
            /\ LauncherReturned
            /\ instanceId = calls[i].ret
            /\ instanceId # ""
            /\ pc = "DescribeInstances" \/ N("DescribeInstances") >= 1
            /\ \A k \in CallsOf("DescribeInstances") :
                  k > j /\ calls[k].arg = calls[i].ret

C10_Witness ==
    /\ \E j \in CallsOf("CreateTags") : calls[j].res # "ok"
    /\ \E k \in CallsOf("DescribeInstances") :
          calls[k].arg = instanceId /\ instanceId \in InstanceIds

\* the last DescribeInstances result received in this run
LastResponse == responses[Len(responses)]

(* C11: the poller's result is non-empty only if the last response it     *)
(* observed was Running; the browser launcher is invoked at most once per *)
(* run, only with a non-empty address, only after a Running response, and *)
(* never after a Failed response, a query error or a launch failure.      *)
C11_BrowserOnlyAfterRunning ==
    /\ (PollerReturned /\ publicDnsName # "") =>
          IsRunningResponse(LastResponse)
    /\ N("openBrowser") <= 1
    /\ \A b \in CallsOf("openBrowser") :
          /\ calls[b].arg # ""
          /\ IsRunningResponse(LastResponse)
          /\ \A k \in DOMAIN responses :
                /\ ~IsFailedResponse(responses[k])
                /\ responses[k].err.kind = "nil"
          /\ \A i \in CallsOf("RunInstances") : calls[i].res = "ok"

(* C12: for a non-empty image identifier, when the group pre-exists,      *)
(* RunInstances succeeds and the status responses are one or more pending *)
(* followed by running with address A, the value handed to the browser    *)
(* launcher is "http://" followed by A, and neither CreateSecurityGroup   *)
(* nor AuthorizeSecurityGroupIngress is issued during the run.            *)
C12_EndToEnd ==
    (/\ imageId # ""
     /\ groupsAtStart # {}
     /\ \E i \in CallsOf("RunInstances") : calls[i].res = "ok"
     /\ Len(responses) >= 2
     /\ IsRunningResponse(LastResponse)
     /\ \A k \in 1..(Len(responses) - 1) : IsPendingResponse(responses[k])) =>
        /\ publicDnsName = "http://" \o RunningAddress(LastResponse)
        /\ pc = "openBrowser" \/ N("openBrowser") = 1
        /\ \A b \in CallsOf("openBrowser") :
              calls[b].arg = "http://" \o RunningAddress(LastResponse)
        /\ N("CreateSecurityGroup") = 0
        /\ N("AuthorizeSecurityGroupIngress") = 0

\* the stage of the pipeline an external call belongs to
Stage(o) ==
    CASE o = "LoadDefaultConfig"             -> 0
      [] o = "DescribeSecurityGroups"        -> 1
      [] o = "CreateSecurityGroup"           -> 2
      [] o = "AuthorizeSecurityGroupIngress" -> 3
      [] o = "RunInstances"                  -> 4
      [] o = "CreateTags"                    -> 5
      [] o \in {"DescribeInstances", "Sleep"} -> 6
      [] o = "openBrowser"                   -> 7

\* the calls of the remote API surface (everything after the config load)
ApiCalls == {i \in DOMAIN calls : Stage(calls[i].op) \in 1..6 /\ calls[i].op # "Sleep"}

(* C13: the remote calls of a run occur in pipeline order: the group      *)
(* lookup is the first remote API call and is made exactly once; create   *)
(* and authorize precede RunInstances, RunInstances precedes CreateTags,  *)
(* CreateTags precedes every DescribeInstances, the browser launch comes  *)
(* after the last DescribeInstances; no call of an earlier stage follows  *)
(* a call of a later stage.                                               *)
C13_PipelineOrder ==
    /\ \A i, j \in DOMAIN calls :
          i < j => Stage(calls[i].op) <= Stage(calls[j].op)
    /\ \A i, j \in DOMAIN calls :
          (i < j /\ Stage(calls[i].op) = Stage(calls[j].op)) =>
              Stage(calls[i].op) = 6
    /\ ApiCalls # {} =>
          /\ N("DescribeSecurityGroups") = 1
          /\ \A i \in ApiCalls, l \in CallsOf("DescribeSecurityGroups") : l <= i

C13_Witness ==
    /\ pc = "exit"
    /\ N("CreateSecurityGroup") = 1
    /\ N("AuthorizeSecurityGroupIngress") = 1
    /\ N("RunInstances") = 1
    /\ N("CreateTags") = 1
    /\ N("DescribeInstances") = 2
    /\ N("openBrowser") = 1

(* C14: a run that passed startup issues exactly one RunInstances and     *)
(* never retries it, whatever the resolver returned; when the resolver    *)
(* returned the empty sentinel the process does not abort and the single  *)
(* RunInstances carries the empty group reference.                        *)
C14_ExactlyOneRunInstances ==
    /\ N("RunInstances") <= 1
    /\ ResolverReturned =>
          /\ IF pc = "RunInstances"
             THEN N("RunInstances") = 0 /\ exitStatus = "running"
             ELSE N("RunInstances") = 1
          /\ \A i \in CallsOf("RunInstances") :
                /\ calls[i].arg = securityGroupId
                /\ \A j \in CallsOf("CreateSecurityGroup")
                            \cup CallsOf("DescribeSecurityGroups")
                            \cup CallsOf("AuthorizeSecurityGroupIngress") : j < i

C14_Witness ==
    /\ pc = "exit"
    /\ securityGroupId = ""
    /\ \E i \in CallsOf("RunInstances") :
          calls[i].arg = "" /\ calls[i].res # "ok"
    /\ N("RunInstances") = 1

(* C16: when CreateSecurityGroup fails, AuthorizeSecurityGroupIngress is  *)
(* never invoked, the resolver returns the empty identifier and reports,  *)
(* and CreateSecurityGroup is not retried.                                *)
C16_CreateFailureReturnsEmpty ==
    \A j \in CallsOf("CreateSecurityGroup") :
        calls[j].res # "ok" =>
            /\ N("AuthorizeSecurityGroupIngress") = 0
            /\ N("CreateSecurityGroup") = 1
            /\ ResolverReturned
            /\ securityGroupId = ""
            /\ Printed("Got an error creating an security group:")

C16_Witness ==
    /\ \E i \in CallsOf("DescribeSecurityGroups") :
          calls[i].res = "InvalidGroup.NotFound"
    /\ \E j \in CallsOf("CreateSecurityGroup") : calls[j].res # "ok"
    /\ pc = "RunInstances"
    /\ securityGroupId = ""

(* C18: CreateTags is issued at most once per run, right after a          *)
(* successful RunInstances and for the identifier it returned; never      *)
(* after a failed RunInstances; and always before the first               *)
(* DescribeInstances.                                                     *)
C18_TagOnceAfterLaunch ==
    /\ N("CreateTags") <= 1
    /\ \A j \in CallsOf("CreateTags") :
          /\ j - 1 \in CallsOf("RunInstances")
          /\ calls[j - 1].res = "ok"
          /\ calls[j].arg = calls[j - 1].ret
          /\ calls[j].arg # ""
          /\ \A k \in CallsOf("DescribeInstances") : j < k
    /\ \A i \in CallsOf("RunInstances") :
          /\ calls[i].res # "ok" => N("CreateTags") = 0
          /\ (calls[i].res = "ok" /\ N("DescribeInstances") >= 1) =>
                N("CreateTags") = 1

C18_Witness ==
    /\ \E j \in CallsOf("CreateTags") : calls[j].arg = instanceId
    /\ N("DescribeInstances") >= 1
    /\ instanceId \in InstanceIds

\* a successful response that lists no instance at all
IsEmptyResponse(r) == r.err.kind = "nil" /\ r.insts = <<>>

\* the position in calls of the k-th DescribeInstances
QueryIndex(k) ==
    CHOOSE i \in CallsOf("DescribeInstances") :
        Cardinality({j \in CallsOf("DescribeInstances") : j <= i}) = k

(* C19: every successful status response makes waitRunning either go on   *)
(* polling (pending), return the address (running) or return empty        *)
(* (failed).  A successful response without any instance is handled like  *)
(* pending: waitRunning sleeps the poll interval and queries again, so as *)
(* long as the remote answers with empty results the poller neither       *)
(* returns nor reports a failure.                                         *)
C19_EmptyResponseIsPending ==
    /\ \A k \in DOMAIN responses :
          IsEmptyResponse(responses[k]) =>
              /\ QueryIndex(k) + 1 \in DOMAIN calls
              /\ calls[QueryIndex(k) + 1].op = "Sleep"
              /\ calls[QueryIndex(k) + 1].arg = ToString(PollSleep)
              /\ k = Len(responses) =>
                    (pc = "DescribeInstances" /\ exitStatus = "running")
    /\ (responses # <<>> /\ \A k \in DOMAIN responses : IsEmptyResponse(responses[k])) =>
          /\ ~PollerReturned
          /\ ~Printed("Got an error creating an instance")
          /\ ~Printed("Got an error retrieving information about your Amazon EC2 instances:")
          /\ N("DescribeInstances") = Len(responses)
    /\ \A k \in DOMAIN responses :
          responses[k].err.kind = "nil" =>
              \/ IsRunningResponse(responses[k]) /\ k = Len(responses) /\ PollerReturned
              \/ IsFailedResponse(responses[k]) /\ k = Len(responses) /\ PollerReturned
              \/ /\ Decisive(responses[k]) = {}
                 /\ k < Len(responses) \/ pc = "DescribeInstances"

C19_Witness ==
    /\ Len(responses) = 2
    /\ IsEmptyResponse(responses[1])
    /\ IsEmptyResponse(responses[2])
    /\ pc = "DescribeInstances"
    /\ N("Sleep") = 2

\* a response on which the loop of waitRunning ends
IsTerminalResponse(r) ==
    \/ r.err.kind # "nil"
    \/ IsRunningResponse(r)
    \/ IsFailedResponse(r)

\* one step of the program itself (the operator's restart left out)
ProgramStep ==
    \/ \E img \in ImageIds : main(img)
    \/ \E err \in {NoErr, GenericErr} : createClient(err)
    \/ \E r \in LookupResults : getSecurityGroup(r)
    \/ \E r \in CreateGroupResults : createSecurityGroup(r)
    \/ \E err \in {NoErr, GenericErr} : authorizeIngress(err)
    \/ \E r \in RunInstancesResults : createInstance(r)
    \/ \E err \in {NoErr, GenericErr} : setTagName(err)
    \/ \E res \in DescribeResults : waitRunning(res)
    \/ \E err \in {NoErr, GenericErr} : openBrowser(err)

\* The program is sequential and every call of it returns, so it always
\* takes its next step; the remote answers at most MaxPolls polls of a run
\* with a non-terminal status (the guard of waitRunning), which is the
\* assumption that it eventually reports a terminal status or an error.
LiveSpec == Init /\ [][Next]_vars /\ WF_vars(ProgramStep)

(* C15: waitRunning returns only on a running response, a response with   *)
(* a code that is neither pending nor running, or a query error; while    *)
(* every response is pending it keeps querying; and when the remote       *)
(* eventually gives a terminal response or an error, the poller returns   *)
(* and the process ends.                                                  *)
C15_PollerTerminates ==
    /\ [](PollerReturned => IsTerminalResponse(LastResponse))
    /\ []((/\ responses # <<>>
           /\ \A k \in DOMAIN responses : ~IsTerminalResponse(responses[k]))
          => (pc = "DescribeInstances" /\ N("DescribeInstances") = Len(responses)))
    /\ (pc = "DescribeInstances") ~> (pc = "exit")

C15_Witness ==
    /\ Len(responses) >= 3
    /\ \A k \in 1..(Len(responses) - 1) : ~IsTerminalResponse(responses[k])
    /\ IsTerminalResponse(LastResponse)
    /\ pc = "exit"

\* the process ended abnormally only on a configuration load failure
\* (panic) or on a browser launch failure (log.Fatal)
AbnormalOnlyAtStartupOrBrowser ==
    /\ exitStatus = "panic" =>
          /\ calls[Len(calls)].op = "LoadDefaultConfig"
          /\ calls[Len(calls)].res # "ok"
    /\ exitStatus = "fatal" =>
          /\ calls[Len(calls)].op = "openBrowser"
          /\ calls[Len(calls)].res # "ok"
    /\ (/\ pc = "exit"
        /\ \A i \in CallsOf("LoadDefaultConfig") \cup CallsOf("openBrowser") :
              calls[i].res = "ok") => exitStatus = "returned"

(* C17: after startup no failure of a remote API call (lookup, create,    *)
(* authorize, RunInstances, CreateTags, DescribeInstances) ends the       *)
(* process abnormally: the enclosing step returns its sentinel and the    *)
(* process ends normally; the only abnormal ends are a configuration load *)
(* failure at startup and a browser launch failure.                       *)
C17_ApiFailuresReturnSentinel ==
    /\ AbnormalOnlyAtStartupOrBrowser
    /\ \A i \in CallsOf("DescribeSecurityGroups") :
          (calls[i].res \notin {"ok", "InvalidGroup.NotFound"} /\ ResolverReturned)
              => securityGroupId = ""
    /\ \A i \in CallsOf("CreateSecurityGroup")
                \cup CallsOf("AuthorizeSecurityGroupIngress") :
          (calls[i].res # "ok" /\ ResolverReturned) => securityGroupId = ""
    /\ \A i \in CallsOf("RunInstances") :
          calls[i].res # "ok" => (LauncherReturned /\ instanceId = "")
    /\ \A i \in CallsOf("CreateTags") :
          calls[i].res # "ok" => LauncherReturned
    /\ \A k \in DOMAIN responses :
          responses[k].err.kind # "nil" => (PollerReturned /\ publicDnsName = "")

====
